---- MODULE Spec2Model ----
(***************************************************************************)
(* Model of interlock-rs (src/src/lib.rs): the Interlock<T> container, a   *)
(* monitored value of type T: Interlockable + Clone and a two-state latch. *)
(* T is instantiated with the crate's own implementation of the trait,     *)
(* tests::InterlockableBool (a Cell<bool>, true meaning "not clear").      *)
(***************************************************************************)
EXTENDS Naturals, Sequences, FiniteSets, TLC

VARIABLES
    inner,      \* Interlock::inner, the val of the InterlockableBool
    state,      \* Interlock::state, the latch
    clone,      \* the value handed out by the last get_inner(): <<>> or <<val>>
    op,         \* the operation that ran last
    arg,        \* its update argument: <<>> or <<new_value>>
    ret,        \* what it returned to the caller
    pre_inner,  \* inner when that operation was called
    pre_state,  \* state when that operation was called
    panicked,   \* TRUE once a call has ended in a panic
    alive,      \* FALSE once a panic has aborted the process (panic = "abort");
                \* an unwinding panic leaves the container as it is, and it
                \* can still be called (from a Drop, after catch_unwind)
    log         \* the last HistLen calls, oldest first: what was called, what
                \* it returned and the fields of the container after it

vars ==
    <<inner, state, clone, op, arg, ret, pre_inner, pre_state, panicked,
      alive, log>>

\* how many of the most recent calls the log keeps
HistLen == 4

\* enum InterlockState
InterlockState == {"Inactive", "Active"}

\* T::UpdateType of InterlockableBool
UpdateType == BOOLEAN

\* the values an InterlockableBool can hold
InterlockableBool == BOOLEAN

----------------------------------------------------------------------------
\* impl Interlockable for InterlockableBool

\* fn is_clear(&self) -> bool { !self.val.get() }
is_clear(val) == ~val

\* fn set(&self, new) { self.val.set(new) }: the val after the call
InterlockableBool_set(val, new_val) == new_val

\* fn clear(&self, new) { self.val.set(new) }: the val after the call
InterlockableBool_clear(val, new_val) == new_val

\* #[derive(Clone)]: the val of the clone
InterlockableBool_clone(val) == val

----------------------------------------------------------------------------
\* impl Interlock<T>

\* mutant: the constructor asserts the latch on a not-clear value
new_checks_value(v) ==
    [inner |-> v, state |-> IF is_clear(v) THEN "Inactive" ELSE "Active"]

\* Interlock::new(inner): the fields of the constructed container
new(v) == [inner |-> v, state |-> "Inactive"]

\* try_clear_interlock: the Result of the match on is_clear()
try_clear_result(in) == IF is_clear(in) THEN "Ok" ELSE "ClearError"

\* mutant: the match arm forgets self.state.replace(Inactive)
try_clear_state_no_replace(in, st) == st

\* mutant: the latch is replaced before is_clear() is matched
try_clear_state_unconditional(in, st) == "Inactive"

\* try_clear_interlock: the latch after the match on is_clear()
try_clear_state(in, st) == IF is_clear(in) THEN "Inactive" ELSE st

\* mutant: the `!` in front of self.inner.is_clear() is dropped
set_state_inverted(in, st) ==
    IF is_clear(in) /\ (st = "Inactive") THEN "Active" ELSE st

\* mutant: the latch follows the value instead of latching
set_state_tracks_value(in, st) ==
    IF is_clear(in) THEN "Inactive" ELSE "Active"

\* mutant: a not-clear value flips the latch instead of asserting it
set_state_toggles(in, st) ==
    IF ~is_clear(in) THEN (IF st = "Inactive" THEN "Active" ELSE "Inactive")
    ELSE st

\* mutant: the write of Active is forgotten
set_state_never_asserts(in, st) == st

\* set: the latch after the `if` that follows self.inner.set(new_value);
\* in is the inner value after the update
set_state(in, st) ==
    IF (~is_clear(in)) /\ (st = "Inactive") THEN "Active" ELSE st

\* mutant: clear also resets the latch when the value has become clear
clear_state_resets(in, st) == IF is_clear(in) THEN "Inactive" ELSE st

\* mutant: clear runs the latch logic of set
clear_state_like_set(in, st) == set_state(in, st)

\* clear: the latch after self.inner.clear(new_value)
clear_state(in, st) == st

\* get_state: self.state.get()
get_state_value(st) == st

\* every operation records what it was called on; a call needs a process
\* to make it
Called(name, a) ==
    /\ alive
    /\ op' = name
    /\ arg' = a
    /\ pre_inner' = inner
    /\ pre_state' = state

\* the log entry of a call
Entry(name, a, r, in, st) ==
    [op |-> name, arg |-> a, ret |-> r, inner |-> in, state |-> st]

\* the log with one more call, the oldest dropped once HistLen are kept
Shift(l, e) == IF Len(l) < HistLen THEN Append(l, e) ELSE Append(Tail(l), e)

\* the call that has just run is appended to the log
Logged == log' = Shift(log, Entry(op', arg', ret', inner', state'))

Init ==
    \E v \in InterlockableBool :
        /\ inner = new(v).inner
        /\ state = new(v).state
        /\ clone = <<>>
        /\ op = "new"
        /\ arg = <<>>
        /\ ret = "Self"
        /\ pre_inner = v
        /\ pre_state = "Inactive"
        /\ panicked = FALSE
        /\ alive = TRUE
        /\ log = <<Entry("new", <<>>, "Self", new(v).inner, new(v).state)>>

\* mutant: with the latch already Inactive there is nothing to clear and
\* the call succeeds without looking at the value
try_clear_interlock_skips_inactive ==
    /\ Called("try_clear_interlock", <<>>)
    /\ state' = try_clear_state(inner, state)
    /\ ret' = IF state = "Inactive" THEN "Ok" ELSE try_clear_result(inner)
    /\ UNCHANGED <<inner, clone, panicked, alive>>
    /\ Logged

\* mutant: clearing a latch that is already Inactive is reported as an error
try_clear_interlock_once ==
    /\ Called("try_clear_interlock", <<>>)
    /\ state' = try_clear_state(inner, state)
    /\ ret' = IF state = "Inactive" THEN "ClearError"
              ELSE try_clear_result(inner)
    /\ UNCHANGED <<inner, clone, panicked, alive>>
    /\ Logged

try_clear_interlock ==
    /\ Called("try_clear_interlock", <<>>)
    /\ state' = try_clear_state(inner, state)
    /\ ret' = try_clear_result(inner)
    /\ UNCHANGED <<inner, clone, panicked, alive>>
    /\ Logged

\* mutant: clearness is evaluated before the update is forwarded
set_before_update(new_value) ==
    /\ Called("set", <<new_value>>)
    /\ inner' = InterlockableBool_set(inner, new_value)
    /\ state' = set_state(inner, state)
    /\ ret' = "unit"
    /\ UNCHANGED <<clone, panicked, alive>>
    /\ Logged

set(new_value) ==
    /\ Called("set", <<new_value>>)
    /\ inner' = InterlockableBool_set(inner, new_value)
    /\ state' = set_state(inner', state)
    /\ ret' = "unit"
    /\ UNCHANGED <<clone, panicked, alive>>
    /\ Logged

clear(new_value) ==
    /\ Called("clear", <<new_value>>)
    /\ inner' = InterlockableBool_clear(inner, new_value)
    /\ state' = clear_state(inner', state)
    /\ ret' = "unit"
    /\ UNCHANGED <<clone, panicked, alive>>
    /\ Logged

get_state ==
    /\ Called("get_state", <<>>)
    /\ ret' = get_state_value(state)
    /\ UNCHANGED <<inner, state, clone, panicked, alive>>
    /\ Logged

\* mutant: the value is moved out of the container, a default left behind
get_inner_takes ==
    /\ Called("get_inner", <<>>)
    /\ clone' = <<InterlockableBool_clone(inner)>>
    /\ inner' = FALSE
    /\ ret' = "T"
    /\ UNCHANGED <<state, panicked, alive>>
    /\ Logged

get_inner ==
    /\ Called("get_inner", <<>>)
    /\ clone' = <<InterlockableBool_clone(inner)>>
    /\ ret' = "T"
    /\ UNCHANGED <<inner, state, panicked, alive>>
    /\ Logged

\* the strategies a build can give a panic: unwind the stack or abort
PanicStrategy == {"unwind", "abort"}

\* todo!() never returns: the call ends in a panic, which the build either
\* unwinds (the fields are untouched) or turns into an abort of the process
get_inner_ref ==
    /\ Called("get_inner_ref", <<>>)
    /\ ret' = "panic"
    /\ panicked' = TRUE
    /\ \E strategy \in PanicStrategy : alive' = (strategy = "unwind")
    /\ UNCHANGED <<inner, state, clone>>
    /\ Logged

\* mutant: the clone shares its cell with the container's value
clone_set_aliased(new_val) ==
    /\ clone # <<>>
    /\ Called("clone.set", <<new_val>>)
    /\ clone' = <<InterlockableBool_set(clone[1], new_val)>>
    /\ inner' = clone'[1]
    /\ ret' = "unit"
    /\ UNCHANGED <<state, panicked, alive>>
    /\ Logged

\* the caller applies Interlockable::set to the clone it got from get_inner
clone_set(new_val) ==
    /\ clone # <<>>
    /\ Called("clone.set", <<new_val>>)
    /\ clone' = <<InterlockableBool_set(clone[1], new_val)>>
    /\ ret' = "unit"
    /\ UNCHANGED <<inner, state, panicked, alive>>
    /\ Logged

\* the caller applies Interlockable::clear to the clone it got from get_inner
clone_clear(new_val) ==
    /\ clone # <<>>
    /\ Called("clone.clear", <<new_val>>)
    /\ clone' = <<InterlockableBool_clear(clone[1], new_val)>>
    /\ ret' = "unit"
    /\ UNCHANGED <<inner, state, panicked, alive>>
    /\ Logged

Next ==
    \/ try_clear_interlock
    \/ \E u \in UpdateType : set(u)
    \/ \E u \in UpdateType : clear(u)
    \/ get_state
    \/ get_inner
    \/ get_inner_ref
    \/ \E u \in UpdateType : clone_set(u)
    \/ \E u \in UpdateType : clone_clear(u)

Spec == Init /\ [][Next]_vars

TypeOK ==
    /\ inner \in InterlockableBool
    /\ state \in InterlockState
    /\ clone \in {<<>>} \cup {<<b>> : b \in BOOLEAN}
    /\ panicked \in BOOLEAN
    /\ alive \in BOOLEAN
    /\ Len(log) \in 1..HistLen

----------------------------------------------------------------------------
\* The value get_state() would return in the current state
GetState == get_state_value(state)

\* C1: a set that takes a clear value to not-clear while the latch is
\* Inactive leaves get_state() = Active right after the call.
C1_AssertOnTransition ==
    (op = "set" /\ pre_state = "Inactive" /\ is_clear(pre_inner)
        /\ ~is_clear(inner))
    => GetState = "Active"

C1_Witness ==
    /\ op = "set" /\ pre_state = "Inactive"
    /\ is_clear(pre_inner) /\ ~is_clear(inner)
    /\ state = "Active"

\* C2: a set that makes the value clear while the latch is Active leaves
\* get_state() = Active, and an Active latch stays Active over every step
\* that is not a try_clear_interlock() returning Ok.
C2_SetClearCase == op = "set" /\ pre_state = "Active" /\ is_clear(inner)

C2_LatchingUnderSet ==
    /\ [](C2_SetClearCase => GetState = "Active")
    /\ [][(state = "Active"
            /\ ~(op' = "try_clear_interlock" /\ ret' = "Ok"))
          => state' = "Active"]_vars

C2_Witness ==
    /\ C2_SetClearCase /\ ~is_clear(pre_inner)
    /\ state = "Active"

\* C3: the only step that takes the latch from Active to Inactive is a
\* try_clear_interlock() that returns Ok(()), called on a clear value.
C3_ExclusiveReset ==
    [][(state = "Active" /\ state' = "Inactive")
       => (op' = "try_clear_interlock" /\ ret' = "Ok" /\ is_clear(inner))]_vars

C3_Witness ==
    /\ op = "try_clear_interlock" /\ ret = "Ok"
    /\ pre_state = "Active" /\ state = "Inactive"

\* C4: try_clear_interlock() on a clear value returns Ok(()) and leaves
\* get_state() = Inactive, whatever the latch was.
C4_ClearSuccess ==
    (op = "try_clear_interlock" /\ is_clear(pre_inner))
    => (ret = "Ok" /\ GetState = "Inactive")

C4_Witness ==
    /\ op = "try_clear_interlock" /\ is_clear(pre_inner)
    /\ pre_state = "Active"
    /\ ret = "Ok" /\ state = "Inactive"

\* C5: try_clear_interlock() on a not-clear value returns
\* Err(Error::ClearError) and leaves the latch as it was; ClearError comes
\* from no other operation and never on a clear value.
C5_ClearFailure ==
    /\ (op = "try_clear_interlock" /\ ~is_clear(pre_inner))
       => (ret = "ClearError" /\ GetState = pre_state)
    /\ ret = "ClearError"
       => (op = "try_clear_interlock" /\ ~is_clear(pre_inner))

C5_Witness ==
    /\ op = "try_clear_interlock" /\ ~is_clear(pre_inner)
    /\ pre_state = "Active"
    /\ ret = "ClearError" /\ state = "Active"

\* C6: right after Interlock::new(v), for a clear or a not-clear v,
\* get_state() is Inactive.
C6_Construction == op = "new" => GetState = "Inactive"

C6_Witness == op = "new" /\ ~is_clear(inner) /\ state = "Inactive"

\* C7: a step takes the latch from Inactive to Active if and only if it is
\* a set called with the latch Inactive that leaves the value not clear.
C7_AssertOnlyThroughSet ==
    [][(state = "Inactive" /\ state' = "Active")
       <=> (op' = "set" /\ state = "Inactive" /\ ~is_clear(inner'))]_vars

C7_Witness ==
    /\ op = "set" /\ pre_state = "Inactive"
    /\ ~is_clear(pre_inner) /\ ~is_clear(inner)
    /\ state = "Active"

\* C8: Interlock::clear(u) leaves get_state() as it was, for every latch
\* value and every update.
C8_ClearKeepsLatch == op = "clear" => GetState = pre_state

C8_Witness ==
    /\ op = "clear" /\ pre_state = "Inactive"
    /\ ~is_clear(inner) /\ state = "Inactive"

\* C9: with the latch Active, a set that leaves the value not clear returns
\* normally and leaves get_state() = Active.
C9_IdempotentAssertion ==
    (op = "set" /\ pre_state = "Active" /\ ~is_clear(inner))
    => (GetState = "Active" /\ ret = "unit" /\ alive)

C9_Witness ==
    /\ op = "set" /\ pre_state = "Active"
    /\ ~is_clear(pre_inner) /\ ~is_clear(inner)
    /\ state = "Active" /\ ret = "unit"

\* C10: no call of a public operation ends in a panic.
C10_NoPanic == ~panicked /\ ret # "panic"

\* the operations a caller applies to the clone returned by get_inner
CloneOps == {"clone.set", "clone.clear"}

\* C11: get_inner() returns the container's value as it is at the call, and
\* a set or clear applied to the returned copy changes neither the
\* container's value, nor its latch, nor what try_clear_interlock() and
\* get_inner() give afterwards.
C11_CopyIsolation ==
    /\ [](op = "get_inner" => (clone = <<pre_inner>> /\ inner = pre_inner))
    /\ [](op \in CloneOps
            => (inner = pre_inner /\ GetState = pre_state
                /\ try_clear_result(inner) = try_clear_result(pre_inner)))
    /\ [][(op \in CloneOps /\ op' = "get_inner") => clone' = <<pre_inner>>]_vars
    /\ [][(op \in CloneOps /\ op' = "try_clear_interlock")
          => (ret' = try_clear_result(pre_inner)
              /\ state' = try_clear_state(pre_inner, pre_state))]_vars

C11_Witness ==
    /\ op = "clone.set" /\ clone # <<>>
    /\ clone[1] # inner
    /\ inner = pre_inner /\ state = pre_state

\* C12: set evaluates clearness on the value after the update: when that
\* value is clear the latch is what it was before the call, when it is not
\* clear the latch is Active.
C12_SetDecidesOnPostValue ==
    /\ (op = "set" /\ is_clear(inner)) => GetState = pre_state
    /\ (op = "set" /\ ~is_clear(inner)) => GetState = "Active"

C12_Witness ==
    /\ Len(log) = 2 /\ log[1].op = "new" /\ ~is_clear(log[1].inner)
    /\ op = "set" /\ is_clear(inner)
    /\ pre_state = "Inactive" /\ state = "Inactive"

\* C13: the result of try_clear_interlock() is fixed by the clearness of the
\* value alone: Ok on every clear value and Err(ClearError) on every
\* not-clear one, whatever the latch is, so two containers that agree on
\* clearness get the same result.
C13_ResultByClearness(c) == IF c THEN "Ok" ELSE "ClearError"

C13_DependsOnlyOnClearness ==
    op = "try_clear_interlock" => ret = C13_ResultByClearness(is_clear(pre_inner))

C13_Witness ==
    /\ op = "try_clear_interlock" /\ pre_state = "Inactive"
    /\ ~is_clear(pre_inner) /\ ret = "ClearError"

\* the call that ran last, the one before it and the one before that
Last == log[Len(log)]
Prev == log[Len(log) - 1]
Prev2 == log[Len(log) - 2]

\* the last call but one was a clear that made a not-clear value clear while
\* the latch was Active
C14_ClearedWhileActive ==
    /\ Len(log) >= 3
    /\ Prev.op = "clear" /\ is_clear(Prev.inner)
    /\ Prev2.state = "Active" /\ ~is_clear(Prev2.inner)

\* C14: with the latch Active and the value not clear, clear(u) making the
\* value clear leaves get_state() Active; a try_clear_interlock() called
\* directly after it returns Ok(()) and leaves the latch Inactive, and any
\* other call directly after it leaves the latch Active.
C14_TwoStepAcknowledgement ==
    /\ (op = "clear" /\ pre_state = "Active" /\ ~is_clear(pre_inner)
            /\ is_clear(inner))
       => GetState = "Active"
    /\ (C14_ClearedWhileActive /\ Last.op = "try_clear_interlock")
       => (Prev.state = "Active" /\ Last.ret = "Ok" /\ GetState = "Inactive")
    /\ (C14_ClearedWhileActive /\ Last.op # "try_clear_interlock")
       => (Prev.state = "Active" /\ GetState = "Active")

C14_Witness ==
    /\ C14_ClearedWhileActive /\ Last.op = "try_clear_interlock"
    /\ Prev.state = "Active"
    /\ ret = "Ok" /\ state = "Inactive"

\* C15: get_state() and get_inner() change neither the latch nor the value,
\* try_clear_interlock() never changes the value, and a call that changes
\* the value is a set or a clear of the container.
C15_ReadOnly ==
    /\ op \in {"get_state", "get_inner"}
       => (inner = pre_inner /\ state = pre_state)
    /\ op = "try_clear_interlock" => inner = pre_inner
    /\ inner # pre_inner => op \in {"set", "clear"}

C15_Witness ==
    /\ op = "get_inner" /\ clone = <<TRUE>>
    /\ ~is_clear(inner) /\ inner = pre_inner
    /\ state = "Active" /\ state = pre_state

\* the scenario new(false), set(true), set(false), try_clear_interlock()
C16_Scenario ==
    /\ Len(log) = 4
    /\ log[1].op = "new" /\ log[1].inner = FALSE
    /\ log[2].op = "set" /\ log[2].arg = <<TRUE>>
    /\ log[3].op = "set" /\ log[3].arg = <<FALSE>>
    /\ log[4].op = "try_clear_interlock"

\* C16: the latch never gets stuck. While the process runs, set and
\* try_clear_interlock can be called; a set that makes the value clear
\* followed by try_clear_interlock() leaves the latch Inactive, a set that
\* makes the value not clear leaves it Active, and the scenario visits
\* Inactive, Active, Active, Inactive.
C16_NoTerminalState ==
    /\ alive
       => /\ ENABLED set(FALSE)
          /\ ENABLED set(TRUE)
          /\ ENABLED try_clear_interlock
    /\ (Len(log) >= 2 /\ Prev.op = "set" /\ is_clear(Prev.inner)
            /\ Last.op = "try_clear_interlock")
       => GetState = "Inactive"
    /\ (op = "set" /\ ~is_clear(inner)) => GetState = "Active"
    /\ C16_Scenario
       => <<log[1].state, log[2].state, log[3].state, log[4].state>>
            = <<"Inactive", "Active", "Active", "Inactive">>

C16_Witness ==
    /\ C16_Scenario
    /\ log[2].state = "Active" /\ log[3].state = "Active"
    /\ ret = "Ok" /\ state = "Inactive"

\* no not-clear value is unlatched
C17_Latched == ~is_clear(inner) => state = "Active"

\* the log starts at a construction with a clear value and holds no clear
C17_SetOnlyRun ==
    /\ log[1].op = "new" /\ is_clear(log[1].inner)
    /\ \A i \in 1..Len(log) : log[i].op # "clear"

\* C17: a container constructed with a clear value and never updated
\* through clear has its latch Active whenever its value is not clear; a
\* step into a state with a not-clear value and the latch Inactive is a
\* clear(u) that leaves the value not clear, and no other state of that
\* kind exists but the one constructed from a not-clear value.
C17_NoUnsafeUnlatched ==
    /\ []((op = "new" /\ ~C17_Latched) => ~is_clear(pre_inner))
    /\ [](C17_SetOnlyRun => C17_Latched)
    /\ [][(C17_Latched /\ ~C17_Latched')
          => (op' = "clear" /\ ~is_clear(inner'))]_vars

C17_Witness ==
    /\ C17_SetOnlyRun /\ Len(log) >= 3
    /\ Last.op = "try_clear_interlock" /\ Last.ret = "ClearError"
    /\ ~is_clear(inner) /\ state = "Active"

\* C18: a try_clear_interlock() called directly after a
\* try_clear_interlock() returns what the first returned and leaves the
\* latch and the value as the first left them.
C18_TryClearIdempotent ==
    (Len(log) >= 2 /\ Prev.op = "try_clear_interlock"
        /\ Last.op = "try_clear_interlock")
    => (Last.ret = Prev.ret /\ Last.state = Prev.state
        /\ Last.inner = Prev.inner)

C18_Witness ==
    /\ Len(log) >= 3
    /\ Prev2.state = "Active" /\ is_clear(Prev2.inner)
    /\ Prev.op = "try_clear_interlock" /\ Prev.ret = "Ok"
    /\ Last.op = "try_clear_interlock" /\ Last.ret = "Ok"
    /\ state = "Inactive"
====
